---------------------------- MODULE Spec2Model ----------------------------
(***************************************************************************)
(* Model of the brainfuck JIT of src/src/main.rs: translate (token stream  *)
(* to IR with loop optimisation), compile (IR to x86-64 machine code with  *)
(* branch patching) and execute (mmap, copy, call), down to the bytes that *)
(* the generated code consists of and the instructions the CPU decodes     *)
(* from them.                                                              *)
(*                                                                         *)
(* Number representation.  TLC integers are 32-bit, so                    *)
(*   - an i32 / usize value is an integer,                                 *)
(*   - a u32 is the pair <<low 16 bits, high 16 bits>>,                    *)
(*   - a u64 is the tuple of its four 16-bit limbs, least significant      *)
(*     first,                                                              *)
(*   - a byte is an integer in 0..255.                                     *)
(* Rust indices are 0-based; a TLA+ sequence is 1-based, so the element    *)
(* at Rust index i of a sequence s is s[i + 1].                            *)
(***************************************************************************)
EXTENDS Integers, Sequences, FiniteSets, TLC

VARIABLES
    insts,          \* main: the filtered token stream returned by parse
    pc,             \* translate: index of the next token
    res,            \* translate: the IR under construction
    loop_stack,     \* translate: IR indices of the pending JumpIfDataZero ops
    stage,          \* where main is
    panic,          \* the panic message, or NoPanic
    ops,            \* main: the IR handed to compile
    opi,            \* compile: number of ops already compiled
    code,           \* compile: MachineCode.content
    bracket_stack,  \* compile: byte offsets of the pending forward branches
    op_offset,      \* history: code.len() when each op's compilation began
    memory,         \* compile: the address malloc returned (u64)
    tape,           \* the contents of the malloc'ed block
    page,           \* execute: what mmap returned
    image,          \* the bytes of the mapped page
    cpu,            \* registers of the CPU running the page
    out,            \* bytes written to stdout
    tape0,          \* history: the contents of the block as malloc returned it
    fault           \* the signal that killed the process, or NoFault

vars == <<insts, pc, res, loop_stack, stage, panic, ops, opi, code,
          bracket_stack, op_offset, memory, tape, tape0, page, image, cpu, out,
          fault>>

translateVars == <<pc, res, loop_stack>>
compileVars == <<opi, code, bracket_stack, op_offset, memory, tape, tape0>>
executeVars == <<page, image, cpu, out, fault>>

-----------------------------------------------------------------------------
(* Bounds of the model *)

\* longest token stream enumerated exhaustively
MaxLen == 3
\* number of tape cells modelled, of the 500000 bytes that compile allocates; an
\* access beyond them counts as an access outside the block
TapeSize == 3
\* stdout accepts this many bytes before a write blocks
MaxOut == 2

-----------------------------------------------------------------------------
(* Fixed-width integers *)

Byte == 0..255
W16 == 256 * 256

\* `n as u8` of an integer
AsU8(n) == n % 256

\* `n as i32` of a usize
AsI32(n) == IF n > 2147483647 THEN (n - 2147483647) - 2147483647 - 2 ELSE n

\* `n as u16` of an i32
AsU16(n) == n % W16

\* `n as u32` of an i32: two's complement, as <<low half, high half>>
AsU32(n) == <<n % W16, (n \div W16) % W16>>

\* the i32 that a u32 is the two's complement of
SignedOfU32(u) == IF u[2] >= 32768 THEN (u[2] - W16) * W16 + u[1] ELSE u[2] * W16 + u[1]

\* the u64 a sign-extended 32-bit immediate stands for
SignExtend(u) == <<u[1], u[2], IF u[2] >= 32768 THEN W16 - 1 ELSE 0, IF u[2] >= 32768 THEN W16 - 1 ELSE 0>>

\* 64-bit wrapping add, limb by limb
Add64(a, b) ==
    LET s1 == a[1] + b[1]
        s2 == a[2] + b[2] + s1 \div W16
        s3 == a[3] + b[3] + s2 \div W16
        s4 == a[4] + b[4] + s3 \div W16
    IN  <<s1 % W16, s2 % W16, s3 % W16, s4 % W16>>

\* 64-bit two's complement negation
Neg64(a) == Add64(<<W16 - 1 - a[1], W16 - 1 - a[2], W16 - 1 - a[3], W16 - 1 - a[4]>>, <<1, 0, 0, 0>>)

\* 64-bit wrapping subtract
Sub64(a, b) == Add64(a, Neg64(b))

U64Zero == <<0, 0, 0, 0>>

-----------------------------------------------------------------------------
(* parse: the token alphabet *)

TOKENS == {">", "<", "+", "-", ".", ",", "[", "]"}

-----------------------------------------------------------------------------
(* BfOp and translate *)

BfOp(k, a) == [kind |-> k, argument |-> a]

NoPanic == [msg |-> "none", at |-> 0]
UnmatchedClose(at) == [msg |-> "unmatched closing ']' at pc=", at |-> at]
MismatchOpen == [msg |-> "mismatch [", at |-> 0]

\* s[from..] replaced by repl: Vec::splice(from.., repl), from a Rust index
SpliceTail(s, from, repl) == SubSeq(s, 1, from) \o repl

\* mutant of TakeWhileCount: a run is folded two tokens at a time at most
TakeWhileCountPairs(tokens, i, inst) ==
    IF i + 1 <= Len(tokens) /\ tokens[i + 1] = inst THEN 2 ELSE 1

\* insts[pc..].iter().take_while(|c| c == inst).count(), i a TLA+ index: the number of
\* tokens from i on up to the first that is not inst
TakeWhileCount(tokens, i, inst) ==
    LET stop == CHOOSE j \in i..(Len(tokens) + 1) :
                    /\ \A k \in i..(j - 1) : tokens[k] = inst
                    /\ j = Len(tokens) + 1 \/ tokens[j] # inst
    IN  stop - i

\* the kind of a non-bracket token
KindOf(inst) ==
    CASE inst = ">" -> "IncPtr"
      [] inst = "<" -> "DecPtr"
      [] inst = "+" -> "IncData"
      [] inst = "-" -> "DecData"
      [] inst = "," -> "ReadStdin"
      [] inst = "." -> "WriteStdout"

\* optimize_loop, the loop_size == 2 arm
OptimizeLoop2(repeated_op) ==
    CASE repeated_op.kind \in {"IncData", "DecData"} -> <<BfOp("LoopSetToZero", 0)>>
      [] repeated_op.kind = "IncPtr" -> <<BfOp("LoopMovePtr", repeated_op.argument)>>
      [] repeated_op.kind = "DecPtr" -> <<BfOp("LoopMovePtr", -repeated_op.argument)>>
      [] OTHER -> <<>>

\* optimize_loop, the loop_size == 5 arm: o1..o4 are ops[loop_start + 1 .. loop_start + 4]
OptimizeLoop5(o1, o2, o3, o4) ==
    IF o1.kind = "DecData" /\ o3.kind = "IncData" /\ o1.argument = 1 /\ o3.argument = 1
    THEN CASE o2.kind = "IncPtr" /\ o4.kind = "DecPtr" /\ o2.argument = o4.argument
                -> <<BfOp("LoopMoveData", o2.argument)>>
           [] o2.kind = "DecPtr" /\ o4.kind = "IncPtr" /\ o2.argument = o4.argument
                -> <<BfOp("LoopMoveData", -o2.argument)>>
           [] OTHER -> <<>>
    ELSE <<>>

\* optimize_loop(ops, loop_start): the replacement, or the empty sequence
optimize_loop(o, loop_start) ==
    LET loop_size == Len(o) - loop_start
    IN  CASE loop_size = 2 -> OptimizeLoop2(o[loop_start + 2])
          [] loop_size = 5 -> OptimizeLoop5(o[loop_start + 2], o[loop_start + 3],
                                            o[loop_start + 4], o[loop_start + 5])
          [] OTHER -> <<>>

\* The state of translate's loop: [pc, res, loop_stack, panic].
\* One iteration of the loop on '['
OnLoopOpen(st) ==
    [st EXCEPT !.loop_stack = Append(st.loop_stack, Len(st.res)),
               !.res = Append(st.res, BfOp("JumpIfDataZero", 0)),
               !.pc = st.pc + 1]

\* mutant of CloseGeneric: the placeholder gets the index of the last op of the body
CloseGenericLastOfBody(r, offset) ==
    Append([r EXCEPT ![offset + 1].argument = AsI32(Len(r) - 1)],
           BfOp("JumpIfDataNotZero", AsI32(offset)))

\* the generic arm of ']': finalize the placeholder and push the closing jump
CloseGeneric(r, offset) ==
    Append([r EXCEPT ![offset + 1].argument = AsI32(Len(r))],
           BfOp("JumpIfDataNotZero", AsI32(offset)))

\* mutant of OnLoopClose: the error reports the position counted from 1
OnLoopCloseCountsFromOne(st) ==
    IF st.loop_stack = <<>>
    THEN [st EXCEPT !.panic = UnmatchedClose(st.pc + 1)]
    ELSE LET offset == st.loop_stack[Len(st.loop_stack)]
             optimized_ops == optimize_loop(st.res, offset)
         IN  [st EXCEPT !.loop_stack = SubSeq(st.loop_stack, 1, Len(st.loop_stack) - 1),
                        !.res = IF Len(optimized_ops) = 0
                                THEN CloseGeneric(st.res, offset)
                                ELSE SpliceTail(st.res, offset, optimized_ops),
                        !.pc = st.pc + 1]

\* One iteration of the loop on ']'
OnLoopClose(st) ==
    IF st.loop_stack = <<>>
    THEN [st EXCEPT !.panic = UnmatchedClose(st.pc)]
    ELSE LET offset == st.loop_stack[Len(st.loop_stack)]
             optimized_ops == optimize_loop(st.res, offset)
         IN  [st EXCEPT !.loop_stack = SubSeq(st.loop_stack, 1, Len(st.loop_stack) - 1),
                        !.res = IF Len(optimized_ops) = 0
                                THEN CloseGeneric(st.res, offset)
                                ELSE SpliceTail(st.res, offset, optimized_ops),
                        !.pc = st.pc + 1]

\* One iteration of the loop on any other token
OnRun(tokens, st) ==
    LET inst == tokens[st.pc + 1]
        num_repeats == TakeWhileCount(tokens, st.pc + 1, inst)
    IN  [st EXCEPT !.pc = st.pc + num_repeats,
                   !.res = Append(st.res, BfOp(KindOf(inst), AsI32(num_repeats)))]

TranslateStep(tokens, st) ==
    LET inst == tokens[st.pc + 1]
    IN  CASE inst = "[" -> OnLoopOpen(st)
          [] inst = "]" -> OnLoopClose(st)
          [] OTHER -> OnRun(tokens, st)

\* translate(insts) run to its return or its panic
RECURSIVE TranslateFrom(_, _)
TranslateFrom(tokens, st) ==
    IF st.pc < Len(tokens) /\ st.panic = NoPanic
    THEN TranslateFrom(tokens, TranslateStep(tokens, st))
    ELSE st

TranslateEntry == [pc |-> 0, res |-> <<>>, loop_stack |-> <<>>, panic |-> NoPanic]

TranslateState == [pc |-> pc, res |-> res, loop_stack |-> loop_stack, panic |-> panic]

\* the loop of translate takes one more iteration, on a token in toks
TranslateIter(toks, next) ==
    /\ stage = "translate"
    /\ pc < Len(insts)
    /\ insts[pc + 1] \in toks
    /\ pc' = next.pc
    /\ res' = next.res
    /\ loop_stack' = next.loop_stack
    /\ panic' = next.panic
    /\ stage' = IF next.panic = NoPanic THEN "translate" ELSE "panicked"
    /\ UNCHANGED <<insts, ops>>
    /\ UNCHANGED compileVars
    /\ UNCHANGED executeVars

TranslateOpen == TranslateIter({"["}, OnLoopOpen(TranslateState))

TranslateClose == TranslateIter({"]"}, OnLoopClose(TranslateState))

TranslateRun == TranslateIter(TOKENS \ {"[", "]"}, OnRun(insts, TranslateState))

\* the loop ends; translate returns res and main calls compile on it
TranslateReturn ==
    /\ stage = "translate"
    /\ pc >= Len(insts)
    /\ ops' = res
    /\ stage' = "compile_entry"
    /\ UNCHANGED <<insts, panic>>
    /\ UNCHANGED translateVars
    /\ UNCHANGED compileVars
    /\ UNCHANGED executeVars

-----------------------------------------------------------------------------
(* MachineCode *)

emit_byte(c, b) == Append(c, b)

emit_bytes(c, bs) == c \o bs

\* n: u16 as an integer
emit_u16(c, n) == emit_bytes(c, <<AsU8(n), AsU8(n \div 256)>>)

\* n: u32
emit_u32(c, n) == emit_u16(emit_u16(c, n[1]), n[2])

\* n: u64
emit_u64(c, n) == emit_u32(emit_u32(c, <<n[1], n[2]>>), <<n[3], n[4]>>)

\* content.splice(start..end, [n, n >> 8, n >> 16, n >> 24] as u8), n: u32
replace_u32(c, start, end, n) ==
    SubSeq(c, 1, start)
        \o <<AsU8(n[1]), AsU8(n[1] \div 256), AsU8(n[2]), AsU8(n[2] \div 256)>>
        \o SubSeq(c, end + 1, Len(c))

-----------------------------------------------------------------------------
(* compile *)

\* cmp byte [r13+0], 0
CmpCell == <<\H41, \H80, \H7D, \H00, \H00>>

SyscallWrite ==
    <<\H48, \HC7, \HC0, \H01, \H00, \H00, \H00,
      \H48, \HC7, \HC7, \H01, \H00, \H00, \H00,
      \H4C, \H89, \HEE,
      \H48, \HC7, \HC2, \H01, \H00, \H00, \H00,
      \H0F, \H05>>

SyscallRead ==
    <<\H48, \HC7, \HC0, \H00, \H00, \H00, \H00,
      \H48, \HC7, \HC7, \H00, \H00, \H00, \H00,
      \H4C, \H89, \HEE,
      \H48, \HC7, \HC2, \H01, \H00, \H00, \H00,
      \H0F, \H05>>

EmitIncPtr(op, c) == emit_u32(emit_bytes(c, <<\H49, \H81, \HC5>>), AsU32(op.argument))

EmitDecPtr(op, c) == emit_u32(emit_bytes(c, <<\H49, \H81, \HED>>), AsU32(op.argument))

EmitIncData(op, c) ==
    IF op.argument < 256
    THEN emit_bytes(c, <<\H41, \H80, \H45, \H00, AsU8(op.argument)>>)
    ELSE IF op.argument < 65536
    THEN emit_u16(emit_bytes(c, <<\H66, \H41, \H81, \H45, \H00>>), AsU16(op.argument))
    ELSE c

EmitDecData(op, c) ==
    IF op.argument < 256
    THEN emit_bytes(c, <<\H41, \H80, \H6D, \H00, AsU8(op.argument)>>)
    ELSE IF op.argument < 65536
    THEN emit_u16(emit_bytes(c, <<\H66, \H41, \H81, \H6D, \H00>>), AsU16(op.argument))
    ELSE c

EmitWriteStdout(op, c) == emit_bytes(c, SyscallWrite)

EmitReadStdin(op, c) == emit_bytes(c, SyscallRead)

EmitLoopSetToZero(op, c) == emit_bytes(c, <<\H41, \HC6, \H45, \H00, \H00>>)

EmitLoopMovePtr(op, c) ==
    LET c1 == emit_u32(emit_bytes(c, CmpCell \o <<\H0F, \H84>>), AsU32(18))
        c2 == IF op.argument >= 0
              THEN emit_u32(emit_bytes(c1, <<\H49, \H81, \HC5>>), AsU32(op.argument))
              ELSE emit_u32(emit_bytes(c1, <<\H49, \H81, \HED>>), AsU32(-op.argument))
    IN  emit_u32(emit_bytes(c2, CmpCell \o <<\H0F, \H85>>), AsU32(-18))

\* mutant of EmitLoopMoveData: the source cell is cleared before it is loaded
EmitLoopMoveDataClearsFirst(op, c) ==
    LET c1 == emit_u32(emit_bytes(c, CmpCell \o <<\H0F, \H84>>), AsU32(23))
        c2 == emit_bytes(c1, <<\H4D, \H89, \HEE>>)
        c3 == IF op.argument >= 0
              THEN emit_u32(emit_bytes(c2, <<\H49, \H81, \HC6>>), AsU32(op.argument))
              ELSE emit_u32(emit_bytes(c2, <<\H49, \H81, \HEE>>), AsU32(-op.argument))
    IN  emit_bytes(c3, <<\H41, \HC6, \H45, \H00, \H00,
                         \H49, \H0F, \HB6, \H45, \H00,
                         \H41, \H00, \H06>>)

EmitLoopMoveData(op, c) ==
    LET c1 == emit_u32(emit_bytes(c, CmpCell \o <<\H0F, \H84>>), AsU32(23))
        c2 == emit_bytes(c1, <<\H4D, \H89, \HEE>>)
        c3 == IF op.argument >= 0
              THEN emit_u32(emit_bytes(c2, <<\H49, \H81, \HC6>>), AsU32(op.argument))
              ELSE emit_u32(emit_bytes(c2, <<\H49, \H81, \HEE>>), AsU32(-op.argument))
    IN  emit_bytes(c3, <<\H49, \H0F, \HB6, \H45, \H00,
                         \H41, \H00, \H06,
                         \H41, \HC6, \H45, \H00, \H00>>)

EmitJumpIfDataZero(op, c) == emit_u32(emit_bytes(emit_bytes(c, CmpCell), <<\H0F, \H84>>), AsU32(0))

\* mutant of EmitJumpIfDataNotZero: the backward displacement is taken from the start
\* of the branch, not from the byte after it
EmitJumpIfDataNotZeroFromStart(bracket_offset, c) ==
    LET c1 == emit_bytes(c, CmpCell)
        jump_back_from == AsI32(Len(c1))
        jump_back_to == AsI32(bracket_offset) + 6
        offset_back == AsU32(jump_back_to - jump_back_from)
        c2 == emit_u32(emit_bytes(c1, <<\H0F, \H85>>), offset_back)
        offset_fwd == AsI32(Len(c2)) - jump_back_to
    IN  replace_u32(c2, bracket_offset + 2, bracket_offset + 6, AsU32(offset_fwd))

\* the JumpIfDataNotZero arm after the pop: emit the backward branch, patch the forward one
EmitJumpIfDataNotZero(bracket_offset, c) ==
    LET c1 == emit_bytes(c, CmpCell)
        jump_back_from == AsI32(Len(c1) + 6)
        jump_back_to == AsI32(bracket_offset) + 6
        offset_back == AsU32(jump_back_to - jump_back_from)
        c2 == emit_u32(emit_bytes(c1, <<\H0F, \H85>>), offset_back)
        offset_fwd == AsI32(Len(c2)) - jump_back_to
    IN  replace_u32(c2, bracket_offset + 2, bracket_offset + 6, AsU32(offset_fwd))

\* what malloc(500000) may return: NULL, or the address of a block
HeapBlock == <<\H3010, \H5A2C, \H7F1E, 0>>
MallocResults == {U64Zero, HeapBlock}

\* what the block may hold when malloc returns it: malloc does not clear it
GarbageBytes == {0, \HAA}
Cells == 0..(TapeSize - 1)
MallocContents == [Cells -> GarbageBytes]
ZeroTape == [i \in Cells |-> 0]

\* compile, up to the loop over the ops
CompileBegin ==
    /\ stage = "compile_entry"
    /\ \E m \in MallocResults :
         /\ memory' = m
         /\ \E t \in (IF m = U64Zero THEN {ZeroTape} ELSE MallocContents) :
              /\ tape' = t
              /\ tape0' = t
         /\ code' = emit_u64(emit_bytes(<<>>, <<\H49, \HBD>>), m)
    /\ bracket_stack' = <<>>
    /\ opi' = 0
    /\ op_offset' = <<>>
    /\ stage' = "compile_loop"
    /\ UNCHANGED <<insts, panic, ops>>
    /\ UNCHANGED translateVars
    /\ UNCHANGED executeVars

CurOp == ops[opi + 1]

\* one iteration of `for op in ops`, on an op whose kind is k
CompileArm(k, newcode, newstack) ==
    /\ stage = "compile_loop"
    /\ opi < Len(ops)
    /\ CurOp.kind = k
    /\ code' = newcode
    /\ bracket_stack' = newstack
    /\ op_offset' = Append(op_offset, Len(code))
    /\ opi' = opi + 1
    /\ stage' = "compile_loop"
    /\ UNCHANGED <<insts, panic, ops, memory, tape, tape0>>
    /\ UNCHANGED translateVars
    /\ UNCHANGED executeVars

CompileIncPtr == CompileArm("IncPtr", EmitIncPtr(CurOp, code), bracket_stack)

CompileDecPtr == CompileArm("DecPtr", EmitDecPtr(CurOp, code), bracket_stack)

CompileIncData == CompileArm("IncData", EmitIncData(CurOp, code), bracket_stack)

CompileDecData == CompileArm("DecData", EmitDecData(CurOp, code), bracket_stack)

CompileWriteStdout == CompileArm("WriteStdout", EmitWriteStdout(CurOp, code), bracket_stack)

CompileReadStdin == CompileArm("ReadStdin", EmitReadStdin(CurOp, code), bracket_stack)

CompileLoopSetToZero == CompileArm("LoopSetToZero", EmitLoopSetToZero(CurOp, code), bracket_stack)

CompileLoopMovePtr == CompileArm("LoopMovePtr", EmitLoopMovePtr(CurOp, code), bracket_stack)

CompileLoopMoveData == CompileArm("LoopMoveData", EmitLoopMoveData(CurOp, code), bracket_stack)

\* the forward branch starts 5 bytes into the op, after the cmp
CompileJumpIfDataZero ==
    CompileArm("JumpIfDataZero", EmitJumpIfDataZero(CurOp, code),
               Append(bracket_stack, Len(code) + 5))

CompileJumpIfDataNotZero ==
    IF bracket_stack = <<>>
    THEN /\ stage = "compile_loop"
         /\ opi < Len(ops)
         /\ CurOp.kind = "JumpIfDataNotZero"
         /\ panic' = MismatchOpen
         /\ stage' = "panicked"
         /\ UNCHANGED <<insts, ops>>
         /\ UNCHANGED translateVars
         /\ UNCHANGED compileVars
         /\ UNCHANGED executeVars
    ELSE CompileArm("JumpIfDataNotZero",
                    EmitJumpIfDataNotZero(bracket_stack[Len(bracket_stack)], code),
                    SubSeq(bracket_stack, 1, Len(bracket_stack) - 1))

\* the loop ends: emit ret, return the code to main, which calls execute
CompileReturn ==
    /\ stage = "compile_loop"
    /\ opi = Len(ops)
    /\ code' = emit_byte(code, \HC3)
    /\ stage' = "execute_entry"
    /\ UNCHANGED <<insts, panic, ops, opi, bracket_stack, op_offset, memory, tape, tape0>>
    /\ UNCHANGED translateVars
    /\ UNCHANGED executeVars

-----------------------------------------------------------------------------
(* execute: mmap, copy, call *)

NoFault == "none"

CpuReset ==
    [rip |-> 0, r13 |-> U64Zero, r14 |-> U64Zero, rax |-> U64Zero,
     rdi |-> U64Zero, rsi |-> U64Zero, rdx |-> U64Zero, zf |-> FALSE]

\* libc::mmap(null, code.len(), RWX, ANON | PRIVATE, -1, 0): a fresh page, or MAP_FAILED
ExecuteMmap ==
    /\ stage = "execute_entry"
    /\ page' \in {"MAP_FAILED", "mapped"}
    /\ stage' = "mmap_returned"
    /\ UNCHANGED <<insts, panic, ops, image, cpu, out, fault>>
    /\ UNCHANGED translateVars
    /\ UNCHANGED compileVars

\* program.copy_from_nonoverlapping(code.as_ptr(), code.len()) into a mapped page
ExecuteCopy ==
    /\ stage = "mmap_returned"
    /\ page = "mapped"
    /\ image' = code
    /\ stage' = "copied"
    /\ UNCHANGED <<insts, panic, ops, page, cpu, out, fault>>
    /\ UNCHANGED translateVars
    /\ UNCHANGED compileVars

\* the same copy when mmap returned MAP_FAILED: the result is not tested, and the
\* write to address 2^64 - 1 is outside every mapping
ExecuteCopyToMapFailed ==
    /\ stage = "mmap_returned"
    /\ page = "MAP_FAILED"
    /\ fault' = "SIGSEGV"
    /\ stage' = "killed"
    /\ UNCHANGED <<insts, panic, ops, page, image, cpu, out>>
    /\ UNCHANGED translateVars
    /\ UNCHANGED compileVars

\* f(): control enters the page at its first byte
ExecuteCall ==
    /\ stage = "copied"
    /\ cpu' = CpuReset
    /\ stage' = "running"
    /\ UNCHANGED <<insts, panic, ops, page, image, out, fault>>
    /\ UNCHANGED translateVars
    /\ UNCHANGED compileVars

-----------------------------------------------------------------------------
(* The generated code, as the CPU runs it *)

\* what a read of stdin may deliver
InputBytes == {0, \H41, \HFF}

\* the opcode bytes pat stand at offset ip of img, and an instruction of n bytes fits there
Has(img, ip, pat, n) ==
    /\ ip >= 0
    /\ ip + n <= Len(img)
    /\ \A k \in 1..Len(pat) : img[ip + k] = pat[k]

U16At(img, o) == img[o + 1] + 256 * img[o + 2]
U32At(img, o) == <<U16At(img, o), U16At(img, o + 2)>>
U64At(img, o) == <<U16At(img, o), U16At(img, o + 2), U16At(img, o + 4), U16At(img, o + 6)>>

\* The instructions compile emits: opcode bytes (with ModRM and displacement),
\* encoded length.  With rip at bytes that are none of them the model has no step.
Ins(opcode, len) == [opcode |-> opcode, len |-> len]
MOV_R13_IMM64 == Ins(<<\H49, \HBD>>, 10)
ADD_R13_IMM32 == Ins(<<\H49, \H81, \HC5>>, 7)
SUB_R13_IMM32 == Ins(<<\H49, \H81, \HED>>, 7)
ADD_R14_IMM32 == Ins(<<\H49, \H81, \HC6>>, 7)
SUB_R14_IMM32 == Ins(<<\H49, \H81, \HEE>>, 7)
ADD_BYTE_IMM8 == Ins(<<\H41, \H80, \H45, \H00>>, 5)
SUB_BYTE_IMM8 == Ins(<<\H41, \H80, \H6D, \H00>>, 5)
CMP_BYTE_IMM8 == Ins(<<\H41, \H80, \H7D, \H00>>, 5)
MOV_BYTE_IMM8 == Ins(<<\H41, \HC6, \H45, \H00>>, 5)
ADD_WORD_IMM16 == Ins(<<\H66, \H41, \H81, \H45, \H00>>, 7)
SUB_WORD_IMM16 == Ins(<<\H66, \H41, \H81, \H6D, \H00>>, 7)
MOV_RAX_IMM32 == Ins(<<\H48, \HC7, \HC0>>, 7)
MOV_RDI_IMM32 == Ins(<<\H48, \HC7, \HC7>>, 7)
MOV_RDX_IMM32 == Ins(<<\H48, \HC7, \HC2>>, 7)
MOV_RSI_R13 == Ins(<<\H4C, \H89, \HEE>>, 3)
MOV_R14_R13 == Ins(<<\H4D, \H89, \HEE>>, 3)
SYSCALL == Ins(<<\H0F, \H05>>, 2)
JZ_REL32 == Ins(<<\H0F, \H84>>, 6)
JNZ_REL32 == Ins(<<\H0F, \H85>>, 6)
MOVZX_RAX_BYTE == Ins(<<\H49, \H0F, \HB6, \H45, \H00>>, 5)
ADD_AT_R14_AL == Ins(<<\H41, \H00, \H06>>, 3)
RET == Ins(<<\HC3>>, 1)

InstructionSet ==
    { MOV_R13_IMM64, ADD_R13_IMM32, SUB_R13_IMM32, ADD_R14_IMM32, SUB_R14_IMM32,
      ADD_BYTE_IMM8, SUB_BYTE_IMM8, CMP_BYTE_IMM8, MOV_BYTE_IMM8, ADD_WORD_IMM16,
      SUB_WORD_IMM16, MOV_RAX_IMM32, MOV_RDI_IMM32, MOV_RDX_IMM32, MOV_RSI_R13,
      MOV_R14_R13, SYSCALL, JZ_REL32, JNZ_REL32, MOVZX_RAX_BYTE, ADD_AT_R14_AL, RET }

\* the tape cell an address designates, or -1 when it lies outside the block
CellIndex(addr) ==
    LET d == Sub64(addr, memory)
    IN  IF memory # U64Zero /\ d[4] = 0 /\ d[3] = 0 /\ d[2] = 0 /\ d[1] < TapeSize
        THEN d[1] ELSE -1

U64Of(n) == <<n, 0, 0, 0>>

\* -EFAULT, what a system call returns for a buffer outside the address space
EFAULT == SignExtend(AsU32(-14))

\* the CPU is about to run the instruction ins
Fetch(ins) == stage = "running" /\ Has(image, cpu.rip, ins.opcode, ins.len)

\* the offset of the instruction's immediate operand, which ends the instruction
ImmAt(ins) == cpu.rip + Len(ins.opcode)
Imm8(ins) == image[ImmAt(ins) + 1]
Imm16(ins) == U16At(image, ImmAt(ins))
Imm32(ins) == U32At(image, ImmAt(ins))
Imm64(ins) == U64At(image, ImmAt(ins))

\* the instruction completes
Retire(newcpu, newtape, newout) ==
    /\ cpu' = newcpu
    /\ tape' = newtape
    /\ out' = newout
    /\ stage' = "running"
    /\ UNCHANGED <<insts, panic, ops, page, image, fault>>
    /\ UNCHANGED <<opi, code, bracket_stack, op_offset, memory, tape0>>
    /\ UNCHANGED translateVars

\* the instruction faults and the signal kills the process
Kill(sig) ==
    /\ fault' = sig
    /\ stage' = "killed"
    /\ UNCHANGED <<insts, panic, ops, page, image, cpu, out>>
    /\ UNCHANGED translateVars
    /\ UNCHANGED compileVars

\* an instruction that reads or writes the n bytes at r13
AtCell(n, newcpu, newtape) ==
    IF CellIndex(cpu.r13) = -1 \/ CellIndex(Add64(cpu.r13, U64Of(n - 1))) = -1
    THEN Kill("SIGSEGV")
    ELSE Retire(newcpu, newtape, out)

Cell == tape[CellIndex(cpu.r13)]

MovR13Imm64 ==
    /\ Fetch(MOV_R13_IMM64)
    /\ Retire([cpu EXCEPT !.rip = cpu.rip + MOV_R13_IMM64.len, !.r13 = Imm64(MOV_R13_IMM64)], tape, out)

AddR13 ==
    /\ Fetch(ADD_R13_IMM32)
    /\ LET r == Add64(cpu.r13, SignExtend(Imm32(ADD_R13_IMM32)))
       IN  Retire([cpu EXCEPT !.rip = cpu.rip + ADD_R13_IMM32.len, !.r13 = r, !.zf = (r = U64Zero)], tape, out)

SubR13 ==
    /\ Fetch(SUB_R13_IMM32)
    /\ LET r == Sub64(cpu.r13, SignExtend(Imm32(SUB_R13_IMM32)))
       IN  Retire([cpu EXCEPT !.rip = cpu.rip + SUB_R13_IMM32.len, !.r13 = r, !.zf = (r = U64Zero)], tape, out)

AddR14 ==
    /\ Fetch(ADD_R14_IMM32)
    /\ LET r == Add64(cpu.r14, SignExtend(Imm32(ADD_R14_IMM32)))
       IN  Retire([cpu EXCEPT !.rip = cpu.rip + ADD_R14_IMM32.len, !.r14 = r, !.zf = (r = U64Zero)], tape, out)

SubR14 ==
    /\ Fetch(SUB_R14_IMM32)
    /\ LET r == Sub64(cpu.r14, SignExtend(Imm32(SUB_R14_IMM32)))
       IN  Retire([cpu EXCEPT !.rip = cpu.rip + SUB_R14_IMM32.len, !.r14 = r, !.zf = (r = U64Zero)], tape, out)

MovR14R13 ==
    /\ Fetch(MOV_R14_R13)
    /\ Retire([cpu EXCEPT !.rip = cpu.rip + MOV_R14_R13.len, !.r14 = cpu.r13], tape, out)

MovRsiR13 ==
    /\ Fetch(MOV_RSI_R13)
    /\ Retire([cpu EXCEPT !.rip = cpu.rip + MOV_RSI_R13.len, !.rsi = cpu.r13], tape, out)

MovRaxImm32 ==
    /\ Fetch(MOV_RAX_IMM32)
    /\ Retire([cpu EXCEPT !.rip = cpu.rip + MOV_RAX_IMM32.len, !.rax = SignExtend(Imm32(MOV_RAX_IMM32))], tape, out)

MovRdiImm32 ==
    /\ Fetch(MOV_RDI_IMM32)
    /\ Retire([cpu EXCEPT !.rip = cpu.rip + MOV_RDI_IMM32.len, !.rdi = SignExtend(Imm32(MOV_RDI_IMM32))], tape, out)

MovRdxImm32 ==
    /\ Fetch(MOV_RDX_IMM32)
    /\ Retire([cpu EXCEPT !.rip = cpu.rip + MOV_RDX_IMM32.len, !.rdx = SignExtend(Imm32(MOV_RDX_IMM32))], tape, out)

AddByte ==
    /\ Fetch(ADD_BYTE_IMM8)
    /\ LET v == (Cell + Imm8(ADD_BYTE_IMM8)) % 256
       IN  AtCell(1, [cpu EXCEPT !.rip = cpu.rip + ADD_BYTE_IMM8.len, !.zf = (v = 0)],
                  [tape EXCEPT ![CellIndex(cpu.r13)] = v])

SubByte ==
    /\ Fetch(SUB_BYTE_IMM8)
    /\ LET v == (Cell - Imm8(SUB_BYTE_IMM8)) % 256
       IN  AtCell(1, [cpu EXCEPT !.rip = cpu.rip + SUB_BYTE_IMM8.len, !.zf = (v = 0)],
                  [tape EXCEPT ![CellIndex(cpu.r13)] = v])

CmpByte ==
    /\ Fetch(CMP_BYTE_IMM8)
    /\ AtCell(1, [cpu EXCEPT !.rip = cpu.rip + CMP_BYTE_IMM8.len, !.zf = (Cell = Imm8(CMP_BYTE_IMM8))], tape)

MovByte ==
    /\ Fetch(MOV_BYTE_IMM8)
    /\ AtCell(1, [cpu EXCEPT !.rip = cpu.rip + MOV_BYTE_IMM8.len], [tape EXCEPT ![CellIndex(cpu.r13)] = Imm8(MOV_BYTE_IMM8)])

\* the 16-bit operand is the cell at r13 (low byte) and the cell after it (high byte)
WordAtCell(w) ==
    LET i == CellIndex(cpu.r13)
    IN  [tape EXCEPT ![i] = w % 256, ![i + 1] = w \div 256]

AddWord ==
    /\ Fetch(ADD_WORD_IMM16)
    /\ LET i == CellIndex(cpu.r13)
           w == (tape[i] + 256 * tape[i + 1] + Imm16(ADD_WORD_IMM16)) % W16
       IN  AtCell(2, [cpu EXCEPT !.rip = cpu.rip + ADD_WORD_IMM16.len, !.zf = (w = 0)], WordAtCell(w))

SubWord ==
    /\ Fetch(SUB_WORD_IMM16)
    /\ LET i == CellIndex(cpu.r13)
           w == (tape[i] + 256 * tape[i + 1] - Imm16(SUB_WORD_IMM16)) % W16
       IN  AtCell(2, [cpu EXCEPT !.rip = cpu.rip + SUB_WORD_IMM16.len, !.zf = (w = 0)], WordAtCell(w))

MovzxRaxByte ==
    /\ Fetch(MOVZX_RAX_BYTE)
    /\ AtCell(1, [cpu EXCEPT !.rip = cpu.rip + MOVZX_RAX_BYTE.len, !.rax = U64Of(Cell)], tape)

AddR14Al ==
    /\ Fetch(ADD_AT_R14_AL)
    /\ LET j == CellIndex(cpu.r14)
           v == (tape[j] + (cpu.rax[1] % 256)) % 256
       IN  IF j = -1
           THEN Kill("SIGSEGV")
           ELSE Retire([cpu EXCEPT !.rip = cpu.rip + ADD_AT_R14_AL.len, !.zf = (v = 0)],
                       [tape EXCEPT ![j] = v], out)

Jz ==
    /\ Fetch(JZ_REL32)
    /\ Retire([cpu EXCEPT !.rip = IF cpu.zf THEN cpu.rip + JZ_REL32.len + SignedOfU32(Imm32(JZ_REL32)) ELSE cpu.rip + JZ_REL32.len],
              tape, out)

Jnz ==
    /\ Fetch(JNZ_REL32)
    /\ Retire([cpu EXCEPT !.rip = IF cpu.zf THEN cpu.rip + JNZ_REL32.len ELSE cpu.rip + JNZ_REL32.len + SignedOfU32(Imm32(JNZ_REL32))],
              tape, out)

\* write(1, rsi, 1): blocks while stdout takes no more
SyscallWriteStdout ==
    /\ Fetch(SYSCALL)
    /\ cpu.rax = U64Of(1) /\ cpu.rdi = U64Of(1) /\ cpu.rdx = U64Of(1)
    /\ LET j == CellIndex(cpu.rsi)
       IN  IF j = -1
           THEN Retire([cpu EXCEPT !.rip = cpu.rip + SYSCALL.len, !.rax = EFAULT], tape, out)
           ELSE /\ Len(out) < MaxOut
                /\ Retire([cpu EXCEPT !.rip = cpu.rip + SYSCALL.len, !.rax = U64Of(1)], tape,
                          Append(out, tape[j]))

\* read(0, rsi, 1): one byte of input, or end of file
SyscallReadStdin ==
    /\ Fetch(SYSCALL)
    /\ cpu.rax = U64Of(0) /\ cpu.rdi = U64Of(0) /\ cpu.rdx = U64Of(1)
    /\ LET j == CellIndex(cpu.rsi)
       IN  IF j = -1
           THEN Retire([cpu EXCEPT !.rip = cpu.rip + SYSCALL.len, !.rax = EFAULT], tape, out)
           ELSE \/ \E b \in InputBytes :
                     Retire([cpu EXCEPT !.rip = cpu.rip + SYSCALL.len, !.rax = U64Of(1)],
                            [tape EXCEPT ![j] = b], out)
                \/ Retire([cpu EXCEPT !.rip = cpu.rip + SYSCALL.len, !.rax = U64Of(0)], tape, out)

\* f returns to execute, execute to main, and main ends
Ret ==
    /\ Fetch(RET)
    /\ stage' = "returned"
    /\ UNCHANGED <<insts, panic, ops, page, image, cpu, out, fault>>
    /\ UNCHANGED translateVars
    /\ UNCHANGED compileVars

CpuStep ==
    \/ MovR13Imm64 \/ AddR13 \/ SubR13 \/ AddR14 \/ SubR14 \/ MovR14R13 \/ MovRsiR13
    \/ MovRaxImm32 \/ MovRdiImm32 \/ MovRdxImm32
    \/ AddByte \/ SubByte \/ CmpByte \/ MovByte \/ AddWord \/ SubWord
    \/ MovzxRaxByte \/ AddR14Al \/ Jz \/ Jnz
    \/ SyscallWriteStdout \/ SyscallReadStdin \/ Ret

-----------------------------------------------------------------------------
(* main *)

RECURSIVE SeqsOfLen(_)
SeqsOfLen(n) == IF n = 0 THEN {<<>>} ELSE {Append(s, t) : s \in SeqsOfLen(n - 1), t \in TOKENS}

\* every token stream of at most MaxLen tokens
ShortPrograms == UNION {SeqsOfLen(n) : n \in 0..MaxLen}

Repeat(t, n) == [i \in 1..n |-> t]

\* longer programs: the loop idioms, a run long enough for the 16-bit form, and an
\* end-to-end program
LongPrograms ==
    { <<"+", "[", "-", ">", "+", "<", "]">>,
      <<">", "+", "[", "-", "<", "+", ">", "]">>,
      <<"+", "[", "-", "-", "]">>,
      <<"+", "[", "[", "-", "]", ".", "]">>,
      <<",", "[", ".", "[", ">", "]", "<", "]">>,
      <<"[", "[", ".", "]", "[", "-", "]", "]">>,
      Repeat("+", 256) \o <<".">>,
      Repeat("-", 257),
      Repeat("+", 8) \o <<"[", ">">> \o Repeat("+", 8) \o <<"<", "-", "]", ">", ".">> }

Programs == ShortPrograms \cup LongPrograms

\* main, after parse returned the tokens of the source file
Init ==
    /\ insts \in Programs
    /\ pc = 0
    /\ res = <<>>
    /\ loop_stack = <<>>
    /\ stage = "translate"
    /\ panic = NoPanic
    /\ ops = <<>>
    /\ opi = 0
    /\ code = <<>>
    /\ bracket_stack = <<>>
    /\ op_offset = <<>>
    /\ memory = U64Zero
    /\ tape = ZeroTape
    /\ tape0 = ZeroTape
    /\ page = "none"
    /\ image = <<>>
    /\ cpu = CpuReset
    /\ out = <<>>
    /\ fault = NoFault

Translate == TranslateOpen \/ TranslateClose \/ TranslateRun \/ TranslateReturn

CompileOps ==
    \/ CompileIncPtr \/ CompileDecPtr \/ CompileIncData \/ CompileDecData
    \/ CompileWriteStdout \/ CompileReadStdin
    \/ CompileLoopSetToZero \/ CompileLoopMovePtr \/ CompileLoopMoveData
    \/ CompileJumpIfDataZero \/ CompileJumpIfDataNotZero

Compile == CompileBegin \/ CompileOps \/ CompileReturn

Execute == ExecuteMmap \/ ExecuteCopy \/ ExecuteCopyToMapFailed \/ ExecuteCall \/ CpuStep

Next == Translate \/ Compile \/ Execute

Spec == Init /\ [][Next]_vars

-----------------------------------------------------------------------------
(* compile and execute on their own: main at the loop of compile, for the *)
(* programs that move data and for every byte the two cells may hold      *)

\* "[->+<]" with pointer moves of n cells, and "[-<+>]" after n moves to the right
MoveRight(n) == <<"[", "-">> \o Repeat(">", n) \o <<"+">> \o Repeat("<", n) \o <<"]">>
MoveLeft(n) ==
    Repeat(">", n) \o <<"[", "-">> \o Repeat("<", n) \o <<"+">> \o Repeat(">", n) \o <<"]">>

MoveDataPrograms == {MoveRight(n) : n \in 1..(TapeSize - 1)} \cup {MoveLeft(n) : n \in 1..(TapeSize - 1)}

\* the cell the pointer is at when the loop of a MoveDataPrograms program begins
SourceCell(p) == IF p[1] = ">" THEN TakeWhileCount(p, 1, ">") ELSE 0
\* the cell its loop moves the data to
DestCell(p) == IF p[1] = ">" THEN 0 ELSE TakeWhileCount(p, 3, ">")

EdgeBytes == {0, 1, \H7F, \H80, \HFF}

\* the bytes of the block for which a program is run: every pair of bytes in the
\* two cells of the loop of "[->+<]", the edge cases for the other loops
BlockContents(p) ==
    IF p \in MoveDataPrograms
    THEN LET vals == IF p = MoveRight(1) THEN Byte ELSE EdgeBytes
         IN  {[i \in Cells |-> IF i = SourceCell(p) THEN v[1]
                               ELSE IF i = DestCell(p) THEN v[2] ELSE \HAA] :
                 v \in vals \X vals}
    ELSE MallocContents

\* main where compile has allocated the block, emitted the load of its address and
\* is about to compile the first op of translate's result
InitBackend ==
    /\ insts \in MoveDataPrograms \cup LongPrograms
    /\ LET st == TranslateFrom(insts, TranslateEntry)
       IN  /\ pc = st.pc
           /\ res = st.res
           /\ loop_stack = st.loop_stack
           /\ panic = st.panic
           /\ ops = st.res
    /\ stage = "compile_loop"
    /\ opi = 0
    /\ memory = HeapBlock
    /\ code = emit_u64(emit_bytes(<<>>, <<\H49, \HBD>>), memory)
    /\ bracket_stack = <<>>
    /\ op_offset = <<>>
    /\ tape \in BlockContents(insts)
    /\ tape0 = tape
    /\ page = "none"
    /\ image = <<>>
    /\ cpu = CpuReset
    /\ out = <<>>
    /\ fault = NoFault

NextBackend == CompileOps \/ CompileReturn \/ Execute

SpecBackend == InitBackend /\ [][NextBackend]_vars

-----------------------------------------------------------------------------
(* Properties of translate *)

Brackets == {"[", "]"}

\* number of tokens t among the first n tokens
CountOf(tokens, t, n) == Cardinality({i \in 1..n : tokens[i] = t})

\* no prefix closes more loops than it opened
NoEarlyClose(tokens) ==
    \A n \in 0..Len(tokens) : CountOf(tokens, "]", n) <= CountOf(tokens, "[", n)

\* the brackets of the token stream are balanced
Balanced(tokens) ==
    /\ NoEarlyClose(tokens)
    /\ CountOf(tokens, "[", Len(tokens)) = CountOf(tokens, "]", Len(tokens))

\* translate has returned
Translated == stage \notin {"translate", "panicked"}

\* C1: a token stream that leaves a '[' unclosed makes translate fail, so that
\* neither compile nor execute is reached: while the loop-start stack holds an
\* entry, main is in translate or has panicked.
C1_UnclosedLoopStopsMain ==
    loop_stack # <<>> => stage \in {"translate", "panicked"}

\* C3: at a ']' that closes a loop whose body is one IncData or DecData op with an
\* argument other than 1, translate keeps the generic pair: the IR then ends with
\* the JumpIfDataNotZero of the loop.
C3_SetZeroOnlyForStepOne ==
    [][ ( /\ stage = "translate"
          /\ pc < Len(insts)
          /\ insts[pc + 1] = "]"
          /\ loop_stack # <<>>
          /\ Len(res) - loop_stack[Len(loop_stack)] = 2
          /\ res[Len(res)].kind \in {"IncData", "DecData"}
          /\ res[Len(res)].argument # 1 )
        => ( /\ Len(res') = Len(res) + 1
             /\ res'[Len(res')].kind = "JumpIfDataNotZero" ) ]_vars

\* C6: a ']' read while the loop-start stack is empty makes translate fail with the
\* unmatched-close error that reports the pc of that token, the IR left as it was.
C6_UnmatchedCloseReported ==
    [][ ( /\ stage = "translate"
          /\ pc < Len(insts)
          /\ insts[pc + 1] = "]"
          /\ loop_stack = <<>> )
        => ( /\ stage' = "panicked"
             /\ panic'.msg = "unmatched closing ']' at pc="
             /\ panic'.at = pc
             /\ res' = res ) ]_vars

\* C6 witness: translate failed at a ']' that follows tokens already translated
C6_Witness ==
    /\ stage = "panicked"
    /\ panic.msg = "unmatched closing ']' at pc="
    /\ panic.at = pc
    /\ pc > 0
    /\ insts[pc + 1] = "]"
    /\ res # <<>>

\* C8: the run-length folding.
\* the kind the claim assigns to a non-bracket token
RunKind(t) ==
    CASE t = ">" -> "IncPtr"
      [] t = "<" -> "DecPtr"
      [] t = "+" -> "IncData"
      [] t = "-" -> "DecData"
      [] t = "," -> "ReadStdin"
      [] t = "." -> "WriteStdout"
      [] OTHER -> "none"

RunKinds == {"IncPtr", "DecPtr", "IncData", "DecData", "ReadStdin", "WriteStdout"}

\* tokens p+1 .. p+k (Rust indices p .. p+k-1) are a maximal run of one token
MaximalRun(tokens, p, k) ==
    /\ k >= 1
    /\ p + k <= Len(tokens)
    /\ \A i \in (p + 1)..(p + k) : tokens[i] = tokens[p + 1]
    /\ p = 0 \/ tokens[p] # tokens[p + 1]
    /\ p + k = Len(tokens) \/ tokens[p + k + 1] # tokens[p + 1]

\* every repeat count of the IR is at least 1, and no two neighbours are ops of the
\* same run kind
RunsFolded(r) ==
    /\ \A i \in 1..Len(r) : r[i].kind \in RunKinds => r[i].argument >= 1
    /\ \A i \in 1..(Len(r) - 1) : r[i].kind \in RunKinds => r[i + 1].kind # r[i].kind

\* C8: when translate reads a non-bracket token, the token starts a maximal run of
\* some k >= 1 identical tokens, exactly one op of the corresponding kind and with
\* argument k is appended, and pc advances by k; so every repeat count in the IR is
\* at least 1 and no two neighbouring ops have the same run kind.
C8_RunLengthFolding ==
    /\ [](RunsFolded(res) /\ RunsFolded(ops))
    /\ [][ ( /\ stage = "translate"
             /\ pc < Len(insts)
             /\ insts[pc + 1] \notin Brackets )
           => \E k \in 1..Len(insts) :
                /\ MaximalRun(insts, pc, k)
                /\ pc' = pc + k
                /\ res' = Append(res, [kind |-> RunKind(insts[pc + 1]), argument |-> k]) ]_vars

\* C8 witness: translate returned an IR in which a run of several tokens became one op
\* between two other ops
C8_Witness ==
    /\ Translated
    /\ \E i \in 2..(Len(ops) - 1) :
         /\ ops[i].kind \in RunKinds
         /\ ops[i].argument >= 2
         /\ ops[i - 1].kind \in RunKinds

\* C9: the jump cross-references.
\* the Rust index i is on the loop-start stack
Pending(stack, i) == \E n \in 1..Len(stack) : stack[n] = i

\* in the IR r every JumpIfDataZero that is not pending and every JumpIfDataNotZero
\* names its partner, which names it back, the JumpIfDataZero first
JumpsPaired(r, stack) ==
    \A n \in 1..Len(r) :
        /\ (r[n].kind = "JumpIfDataZero" /\ ~Pending(stack, n - 1)) =>
             LET j == r[n].argument
             IN  /\ n - 1 < j
                 /\ j < Len(r)
                 /\ r[j + 1].kind = "JumpIfDataNotZero"
                 /\ r[j + 1].argument = n - 1
        /\ r[n].kind = "JumpIfDataNotZero" =>
             LET i == r[n].argument
             IN  /\ 0 <= i
                 /\ i < n - 1
                 /\ r[i + 1].kind = "JumpIfDataZero"
                 /\ r[i + 1].argument = n - 1

\* C9: for a token stream with balanced brackets translate returns, with an empty
\* loop-start stack, an IR in which each JumpIfDataZero at index i names the index
\* j > i of a JumpIfDataNotZero that names i, and the other way round; the pairs
\* closed so far are linked in this way after every step of translate.
C9_JumpsCrossReferenced ==
    /\ JumpsPaired(res, loop_stack)
    /\ (stage \in {"translate", "compile_entry"} /\ pc >= Len(insts) /\ Balanced(insts)) =>
          loop_stack = <<>>
    /\ (stage = "panicked" /\ panic.msg = "unmatched closing ']' at pc=") =>
          ~NoEarlyClose(SubSeq(insts, 1, pc + 1))
    /\ (stage = "compile_entry" /\ Balanced(insts)) =>
          /\ ops = res
          /\ JumpsPaired(ops, <<>>)
          /\ \A n \in 1..Len(ops) : ops[n].kind = "JumpIfDataZero" => ops[n].argument > 0

\* C9 witness: translate returned an IR with a generic loop nested in a generic loop
\* that also holds a loop spliced after the inner one was closed
C9_Witness ==
    /\ Balanced(insts)
    /\ stage = "compile_entry"
    /\ \E a, b, c \in 1..Len(ops) :
         /\ a < b /\ b < c
         /\ ops[a].kind = "JumpIfDataZero" /\ ops[b].kind = "JumpIfDataZero"
         /\ ops[b].argument < ops[a].argument
         /\ ops[c].kind = "LoopSetToZero"
         /\ c - 1 < ops[a].argument

-----------------------------------------------------------------------------
(* Properties of compile and execute *)

\* the op whose code starts at offset o of the generated code, or 0
OpStartingAt(o) ==
    IF \E n \in 1..Len(op_offset) : op_offset[n] = o
    THEN CHOOSE n \in 1..Len(op_offset) : op_offset[n] = o
    ELSE 0

\* the cell the tape pointer designates
PtrCell == CellIndex(cpu.r13)

\* C2: the code of an IncData(n) or DecData(n) op, whatever n >= 1, changes the byte
\* at the tape pointer to (v + n) mod 256, respectively (v - n) mod 256, and no
\* other cell of the tape.
C2_DataOpWrapsOneCell ==
    [][ ( /\ stage = "running"
          /\ stage' = "running"
          /\ OpStartingAt(cpu.rip) # 0
          /\ ops[OpStartingAt(cpu.rip)].kind \in {"IncData", "DecData"} )
        => LET op == ops[OpStartingAt(cpu.rip)]
               v == tape[PtrCell]
               w == IF op.kind = "IncData" THEN (v + op.argument) % 256
                    ELSE (v - op.argument) % 256
           IN  tape' = [tape EXCEPT ![PtrCell] = w] ]_vars

\* C5: when the generated code is first invoked, every cell of the tape holds 0.
C5_TapeZeroAtFirstCall ==
    (stage = "running" /\ cpu.rip = 0) => \A i \in Cells : tape[i] = 0

\* C7: when the platform denies the mapping, execute fails with the
\* allocation-failure error, and neither copies the code to the returned address
\* nor calls it.
C7_DeniedMappingIsFatalError ==
    (page = "MAP_FAILED" /\ stage # "mmap_returned") =>
        /\ stage = "panicked"
        /\ fault = NoFault

\* C10: the branch displacements.
\* the rel32 operand at offset o of c, as the signed number the CPU adds to rip
RelAt(c, o) ==
    LET b3 == c[o + 4]
    IN  c[o + 1] + 256 * c[o + 2] + 65536 * c[o + 3]
          + 16777216 * (IF b3 >= 128 THEN b3 - 256 ELSE b3)

\* ops i and j (Rust indices) are a matched pair of the IR
MatchedPair(i, j) ==
    /\ ops[i + 1].kind = "JumpIfDataZero" /\ ops[i + 1].argument = j
    /\ ops[j + 1].kind = "JumpIfDataNotZero" /\ ops[j + 1].argument = i

\* the branch of a jump op is the 6 bytes that follow its 5-byte cmp
BranchAt(n) == op_offset[n + 1] + 5
AfterBranch(n) == BranchAt(n) + 6

\* the displacements of the pair i, j lead to the byte after the other branch
PairLinked(i, j) ==
    /\ code[BranchAt(i) + 1] = 15 /\ code[BranchAt(i) + 2] = 132
    /\ code[BranchAt(j) + 1] = 15 /\ code[BranchAt(j) + 2] = 133
    /\ AfterBranch(i) + RelAt(code, BranchAt(i) + 2) = AfterBranch(j)
    /\ AfterBranch(j) + RelAt(code, BranchAt(j) + 2) = AfterBranch(i)

\* C10: once compile has emitted both ops of a matched pair, the displacement of the
\* forward branch added to the offset of the byte after it is the offset of the
\* byte after the backward branch, and the displacement of the backward branch
\* added to the offset of the byte after it is the offset of the byte after the
\* forward branch; the step that patches a pair appends the 11 bytes of the
\* backward jump and changes no earlier byte outside the 4-byte displacement field
\* of the forward branch.
C10_BranchDisplacements ==
    /\ [](\A i, j \in 0..(Len(ops) - 1) :
            (MatchedPair(i, j) /\ j < opi) => PairLinked(i, j))
    /\ [][ ( /\ stage = "compile_loop"
             /\ opi < Len(ops)
             /\ ops[opi + 1].kind = "JumpIfDataNotZero"
             /\ bracket_stack # <<>> )
           => LET field == bracket_stack[Len(bracket_stack)] + 2
              IN  /\ Len(code') = Len(code) + 11
                  /\ \A k \in 1..Len(code) :
                       k \notin (field + 1)..(field + 4) => code'[k] = code[k] ]_vars

\* C10 witness: compile has finished the code of a loop that holds another loop, the
\* inner one far enough from the start of the outer one for the displacements to differ
C10_Witness ==
    /\ stage = "execute_entry"
    /\ \E i, j, k, l \in 0..(Len(ops) - 1) :
         /\ MatchedPair(i, j) /\ MatchedPair(k, l)
         /\ i < k /\ l < j
         /\ RelAt(code, BranchAt(i) + 2) > RelAt(code, BranchAt(k) + 2)
         /\ RelAt(code, BranchAt(j) + 2) < 0

\* C4: the move-data loop.
\* the IR is a LoopMoveData op, after the pointer move that a negative offset needs
MoveDataRun ==
    /\ ops # <<>>
    /\ ops[Len(ops)].kind = "LoopMoveData"
    /\ Len(ops) = 1 \/ (Len(ops) = 2 /\ ops[1].kind = "IncPtr")

\* the loop "[-" move "+" move back "]" iterated with s in the cell at the pointer and
\* d in the other cell: the bytes <<s, d>> the two cells hold when it ends
RECURSIVE LiteralLoop(_, _)
LiteralLoop(s, d) ==
    IF s = 0 THEN <<s, d>> ELSE LiteralLoop((s - 1) % 256, (d + 1) % 256)

\* C4: the code of a LoopMoveData(offset) op, run with any byte s in the source cell
\* and any byte d in the destination cell, ends as the literal loop does: the
\* destination holds (d + s) mod 256, the source 0, the pointer is where it was and
\* no other cell has changed; and the code runs to its end.
C4_MoveDataAsLiteralLoop ==
    MoveDataRun =>
        LET k == ops[Len(ops)].argument
            p0 == IF Len(ops) = 2 THEN ops[1].argument ELSE 0
            s == tape0[p0]
            d == tape0[p0 + k]
        IN  /\ stage = "returned" =>
                 /\ tape = [tape0 EXCEPT ![p0] = 0, ![p0 + k] = (d + s) % 256]
                 /\ <<tape[p0], tape[p0 + k]>> = LiteralLoop(s, d)
                 /\ PtrCell = p0
            /\ stage = "killed" => page = "MAP_FAILED"
            /\ stage = "running" => \E ins \in InstructionSet : Fetch(ins)

\* C4 witness: the code of "[->+<]" has run with a sum that wraps
C4_Witness ==
    /\ MoveDataRun
    /\ stage = "returned"
    /\ tape0[0] = 200 /\ tape0[1] = 100
    /\ tape[0] = 0 /\ tape[1] = 44

=============================================================================
